---- MODULE Spec2Model ----
(***************************************************************************)
(* The job submission pipeline of cylc/flow/submit/submit.py, with the      *)
(* remote initialiser and file installer of cylc/flow/submit/remote.py.     *)
(*                                                                          *)
(* One flow per task runs _submit.  A flow is suspended only where the code *)
(* awaits an operation that leaves the process (the subshell command of     *)
(* subshell_eval, check_syntax, the remote-init command, the file transfer);*)
(* everything between two such points is one atomic step, as it is under    *)
(* asyncio.  The flows are started either by submitter(), which awaits each *)
(* _submit before it takes the next task, or side by side on one            *)
(* SelectCache (driver = "gather").                                         *)
(*                                                                          *)
(* Names the draft module uses without importing them (SSHError,            *)
(* PlatformError, JobSyntaxError, WorkflowConfigError, check_syntax,        *)
(* get_platform, get_host, broadcast_mgr) are taken as bound to the objects *)
(* of that name, and the context arguments that the wrappers do not pass on *)
(* to remote.remote_init / remote.file_install as supplied.                 *)
(*                                                                          *)
(* Spec is the pipeline.  SpecFn applies remote.remote_init to every        *)
(* finished remote-init process (exit code, standard output as a sequence   *)
(* of pieces) and eval_host to every host expression, on their own.         *)
(***************************************************************************)
EXTENDS Integers, Sequences, FiniteSets, TLC

\* Number of tasks handed to the pipeline.
NumTasks == 2

Tasks == 1..NumTasks

\* ------------------------------------------------------------------------
\* Configuration (global config platforms, task runtime configuration)
\* ------------------------------------------------------------------------

Hosts == {"A", "B", "C"}

PlatformNames == {"desktop", "pair", "nohosts", "localhost"}

\* platform -> its configured, ordered host list
PlatformHosts ==
    [desktop |-> <<"A", "B", "C">>,
     pair |-> <<"A", "B">>,
     nohosts |-> <<>>,
     localhost |-> <<"localhost">>]

\* platform['install target']
InstallTargetOf ==
    [desktop |-> "T1",
     pair |-> "T2",
     nohosts |-> "T3",
     localhost |-> "localhost"]

InstallTargets == {"T1", "T2", "T3", "localhost"}

\* get_localhost_install_target()
LocalhostInstallTarget == "localhost"

\* The (platform expression, host expression) pairs of the runtime
\* configurations the tasks are drawn from.
RtConfigs ==
    {[platform |-> "desktop", host |-> ""],
     [platform |-> "$(pick)", host |-> ""],
     [platform |-> "$PLAT", host |-> ""],
     [platform |-> "nohosts", host |-> ""],
     [platform |-> "", host |-> ""],
     [platform |-> "", host |-> "$(hostcmd)"],
     [platform |-> "desktop", host |-> "A"]}

\* How the remote-init command run against a host can end:
\*   ok      - exit code 0, the key between its markers in the output
\*   garbled - exit code 0, KEYSTART in the output but no KEYEND after it
\*   fail    - non-zero exit code other than 255 (or exit code 0 and no
\*             KEYSTART in the output, which remote_init treats alike)
\*   exit255 - exit code 255 (host unreachable) handed back in proc.ret_code
\*   ssh     - host unreachable surfacing as SSHError out of subprocpool.run
InitStatuses == {"ok", "garbled", "fail", "exit255", "ssh"}

\* How the file transfer command can end (its output is only logged).
HostStatuses == {"ok", "fail", "exit255", "ssh"}

\* Pieces of the standard output of the remote-init command: the two
\* markers, key material and any other text.
OutTokens == {"KEYSTART", "KEYEND", "k", "x"}

\* Longest standard output considered, in pieces.
MaxOut == 5

BoundedSeq(S, n) == UNION {[1..m -> S] : m \in 0..n}

Stdouts == BoundedSeq(OutTokens, MaxOut)

RetCodes == {0, 1, 255}

\* The finished process subprocpool.run hands back to remote_init.
Procs == [ret_code : RetCodes, out : Stdouts]

\* The process behind each way the commands can end without SSHError.
ProcOf ==
    [ok |-> [ret_code |-> 0, out |-> <<"x", "KEYSTART", "k", "KEYEND", "x">>],
     garbled |-> [ret_code |-> 0, out |-> <<"KEYSTART", "k">>],
     fail |-> [ret_code |-> 1, out |-> <<>>],
     exit255 |-> [ret_code |-> 255, out |-> <<>>]]

Exceptions ==
    {"WorkflowConfigError", "JobSyntaxError", "PlatformError",
     "SubmissionError", "SSHError", "RuntimeError", "AttributeError",
     "UnboundLocalError", "CancelledError"}

Outcomes == {"none", "submitted"} \cup Exceptions

\* ------------------------------------------------------------------------
\* State
\* ------------------------------------------------------------------------
VARIABLES
    driver,                     \* "submitter" | "gather"
    rtconfig,                   \* task -> runtime configuration, once read
    observed,                   \* <<host, outcome>> of the commands that ended
    pc,                         \* task -> position of its _submit flow
    outcome,                    \* task -> how its flow ended
    bad_hosts,                  \* the shared bad-hosts set
    host_selection_batches,     \* cache: key -> generator (0: no entry)
    select_host,                \* task -> generator it iterates (0: none)
    genPos,                     \* generator -> index of last candidate yielded
    cur,                        \* task -> index of its bound (platform, host)
    remote_init_cache,          \* install target -> state of cached coroutine
    remote_file_install_cache,  \* install target -> state of cached coroutine
    evalCmds,                   \* key -> subshell commands started
    initCmds,                   \* install target -> remote-init commands
    installCmds,                \* install target -> file transfer commands
    initCalls,                  \* install target -> calls of remote_init
    installCalls,               \* install target -> calls of remote_file_install
    ops,                        \* task -> remote operations it has entered
    tried,                      \* task -> hosts attempted, in order
    syntaxFailed,               \* tasks for which check_syntax has raised
    public_key_file,            \* install target -> contents written to it
    configure_curve_calls,      \* calls of curve_auth.configure_curve
    log_errors,                 \* <<operation, install target>> logged as failed
    job_submission_queue,       \* (platform name, host) -> tasks queued for it
    submissions,                \* the submission invocations made, in order
    handed,                     \* tasks in the order they entered submit_job
    cancelled,                  \* the driver of the flows has been cancelled
    proc,                       \* finished process handed to remote_init
    ri_result,                  \* what that call of remote_init came to
    host_expr,                  \* host expression handed to eval_host
    eh_result,                  \* what that call of eval_host returned
    fi_target,                  \* install target handed to file_install
    fi_proc,                    \* the transfer process of that call
    fi_result,                  \* what that call of file_install came to
    clock,                      \* time()
    fcn_cache,                  \* fcn.cache of the function under elru_cache
    fcn_cache_age,              \* fcn.cache_age
    hits,                       \* the calls that reached the wrapped function
    calls,                      \* the calls of the wrapper and what they gave
    message,                    \* the decoded request handed to _reciever
    response,                   \* what _reciever came to for it
    invoked,                    \* the attributes whose body that call ran
    cl_links,                   \* clean: what each possible symlink is
    cl_running,                 \* clean: the workflow is still running
    cl_run_dir,                 \* clean: the run directory exists
    cl_result,                  \* clean: what the call came to
    active,                     \* jobs of tasks that are submitted or running
    finished,                   \* jobs of tasks that are no longer active
    state_tasks,                \* state['tasks'] of the job poller
    pollers,                    \* state['pollers']: job -> its poller task
    signals,                    \* state['signals']: job -> its stop signal
    created,                    \* jobs whose status file exists
    status_file,                \* job -> the lines of its status file
    read_pos,                   \* job -> lines its poller has read
    message_queue,              \* scheduler.message_queue
    update_result,              \* what the last update() came to
    updated,                    \* update() was the last step
    stop_result,                \* what stop() has come to
    run_dirs,                   \* install: number of the run directories
    run_n,                      \* install: run the runN link points to, or 0
    installed,                  \* install: runs that have _cylc-install
    base_source_link,           \* install: target of the source link
    iw_result                   \* install: what the last call came to

vars ==
    <<driver, rtconfig, observed, pc, outcome, bad_hosts,
      host_selection_batches, select_host, genPos, cur, remote_init_cache,
      remote_file_install_cache, evalCmds, initCmds, installCmds, initCalls,
      installCalls, ops, tried, syntaxFailed, public_key_file,
      configure_curve_calls, log_errors, job_submission_queue, submissions,
      handed, cancelled, proc, ri_result, host_expr,
      eh_result, fi_target, fi_proc, fi_result, clock, fcn_cache,
      fcn_cache_age, hits, calls, message, response, invoked, cl_links,
      cl_running, cl_run_dir, cl_result, active, finished, state_tasks,
      pollers, signals, created, status_file, read_pos, message_queue,
      update_result, updated, stop_result, run_dirs, run_n, installed,
      base_source_link, iw_result>>

\* The variables of the functions that are called on their own, apart from
\* remote_init and eval_host.
fnvars == <<fi_target, fi_proc, fi_result>>

\* The variables of a function under elru_cache.
cachevars == <<clock, fcn_cache, fcn_cache_age, hits, calls>>

\* The variables of the request receiver.
servervars == <<message, response, invoked>>

\* The variables of suite_files.clean.
cleanvars == <<cl_links, cl_running, cl_run_dir, cl_result>>

\* The variables of the functions on the file system and of the job poller.
\* The variables of main_loop.job_poller.
pollvars ==
    <<active, finished, state_tasks, pollers, signals, created, status_file,
      read_pos, message_queue, update_result, updated, stop_result>>

\* The variables of suite_files.install_workflow.
installvars == <<run_dirs, run_n, installed, base_source_link, iw_result>>

restvars == <<cleanvars, pollvars, installvars>>

\* States of a cached coroutine object.
CoroStates ==
    {"absent", "pending", "True", "False", "SSHError", "AttributeError",
     "CancelledError"}

\* ------------------------------------------------------------------------
\* Expression evaluation (pure parts)
\* ------------------------------------------------------------------------

\* command_pattern.match(eval_str): the expression is $(command) or `command`
IsCommand(eval_str) ==
    eval_str \in {"$(pick)", "$(hostcmd)", "$(ownhost)"}

\* stdout of the subshell command
CommandOutput(eval_str) ==
    IF eval_str = "$(pick)" THEN "desktop"
    ELSE IF eval_str = "$(hostcmd)" THEN "A"
    ELSE IF eval_str = "$(ownhost)" THEN "sched"
    ELSE eval_str

\* os.path.expandvars: a variable that is not set is left as it is
ExpandVars(eval_str) ==
    IF eval_str = "$PLAT" THEN "pair"
    ELSE IF eval_str = "$HOSTVAR" THEN "B"
    ELSE IF eval_str = "$OWNVAR" THEN "sched.example"
    ELSE eval_str

\* The value subshell_eval returns.
SubshellEval(eval_str) ==
    IF eval_str = "" THEN "localhost"
    ELSE ExpandVars(IF IsCommand(eval_str)
                    THEN CommandOutput(eval_str) ELSE eval_str)

\* LOCALHOST: the name of the scheduler host by the self identification method
LOCALHOST == "sched.example"

\* LOCALHOST_ALIASES: the aliases of localhost, with LOCALHOST added
LOCALHOST_ALIASES == {"localhost", "localhost.localdomain", LOCALHOST}

\* get_host_from_name: the network identification method, which raises
\* IOError for a name that does not resolve
GetHostFromName(name) ==
    IF name \in LOCALHOST_ALIASES THEN LOCALHOST
    ELSE IF name = "sched" THEN "sched.example"
    ELSE IF name \in {"A", "B", "C"} THEN name
    ELSE "IOError"

\* Variant: only the literal name localhost counts as the scheduler host.
IsRemoteHostByLiteral(name) == name \notin {"", "localhost"}

IsRemoteHost(name) ==
    IF name = "" \/ name \in LOCALHOST_ALIASES
    THEN FALSE
    ELSE LET resolved == GetHostFromName(name)
         IN  resolved = "IOError" \/ resolved # LOCALHOST

EvalHost(host_str) ==
    LET host == SubshellEval(host_str)
    IN  IF ~IsRemoteHost(host) THEN "localhost" ELSE host

\* The host expressions eval_host is applied to.
HostExprs ==
    {"", "localhost", "localhost.localdomain", "sched", "sched.example",
     "A", "ghost", "$(hostcmd)", "$(ownhost)", "$HOSTVAR",
     "$OWNVAR", "$UNSET"}

EvalPlatform(platform_str) == SubshellEval(platform_str)

\* platform_name_from_job_info2: the platform a bare host belongs to
PlatformNameFromJobInfo(host_string) ==
    IF host_string = "localhost" THEN "localhost" ELSE "desktop"

\* The platform string _get_host_host_selector hands to _host_selector.
PlatformString(cfg) ==
    IF cfg.host # ""
    THEN PlatformNameFromJobInfo(EvalHost(cfg.host))
    ELSE EvalPlatform(cfg.platform)

\* Whether the evaluation suspends in subprocpool.run.
NeedsSubshell(cfg) ==
    IF cfg.host # "" THEN IsCommand(cfg.host) ELSE IsCommand(cfg.platform)

\* Variant: the mixture test is left out, as in the commented-out draft of it.
ConfigConflictUnchecked(cfg) == FALSE

\* The "mixture of Cylc 7 and Cylc 8 logic" test.
ConfigConflict(cfg) == cfg.platform # "" /\ cfg.host # ""

\* ------------------------------------------------------------------------
\* The host selector generator
\* ------------------------------------------------------------------------

\* The (platform, host) pairs of a platform string, in configured order.
Candidates(platform_string) ==
    [i \in 1..Len(PlatformHosts[platform_string]) |->
        [platform |-> platform_string,
         host |-> PlatformHosts[platform_string][i]]]

SetMin(S) == CHOOSE x \in S : \A y \in S : x <= y

\* Variant: the bad hosts are not looked at when the next host is picked.
NextIdxUnfiltered(platform_string, pos, bad) ==
    LET c == Candidates(platform_string)
    IN  IF pos + 1 > Len(c) THEN 0 ELSE pos + 1

\* Index of the next candidate the generator yields after position pos,
\* skipping hosts that are in bad_hosts now; 0 when it is exhausted.
NextIdx(platform_string, pos, bad) ==
    LET c == Candidates(platform_string)
        good == {j \in (pos + 1)..Len(c) : c[j].host \notin bad}
    IN  IF good = {} THEN 0 ELSE SetMin(good)

\* ------------------------------------------------------------------------
\* remote.remote_init: what it does with the finished remote-init command
\* ------------------------------------------------------------------------

SetMax(S) == CHOOSE x \in S : \A y \in S : x >= y

\* Where the piece tok stands in out.
Positions(out, tok) == {i \in 1..Len(out) : out[i] = tok}

\* re.search('KEYSTART((.|\n|\r)*)KEYEND', out): the match starts at the
\* leftmost KEYSTART and, the group being greedy, runs to the last KEYEND
\* after it; no match (None) when no KEYEND follows.
RegexSearch(out) ==
    LET ks == Positions(out, "KEYSTART")
        ke == Positions(out, "KEYEND")
    IN  IF ks = {} \/ {j \in ke : j > SetMin(ks)} = {}
        THEN [matched |-> FALSE, group1 |-> <<>>]
        ELSE [matched |-> TRUE,
              group1 |-> SubSeq(out, SetMin(ks) + 1, SetMax(ke) - 1)]

\* The statements of remote_init after the command has ended: the value
\* returned or the exception raised, the contents written to the client
\* public key file, whether configure_curve is called and whether the
\* PlatformError is logged.  regex_result.group(1) on None raises
\* AttributeError.
RemoteInitCallback(p) ==
    IF p.ret_code = 0 /\ Positions(p.out, "KEYSTART") # {}
    THEN LET regex_result == RegexSearch(p.out)
         IN  IF regex_result.matched
             THEN [result |-> "True", written |-> {regex_result.group1},
                   configured |-> 1, logged |-> FALSE]
             ELSE [result |-> "AttributeError", written |-> {},
                   configured |-> 0, logged |-> FALSE]
    ELSE [result |-> "False", written |-> {}, configured |-> 0,
          logged |-> TRUE]

\* The keys of job_submission_queue: (platform['name'], host).
SubmissionKeys ==
    UNION {{<<p, PlatformHosts[p][i]>> : i \in 1..Len(PlatformHosts[p])} :
            p \in PlatformNames}

\* ------------------------------------------------------------------------
\* The synchronous stretches of a flow, as functions of the mutable state
\* ------------------------------------------------------------------------

\* The mutable state as one record.
State ==
    [rtconfig |-> rtconfig, observed |-> observed,
     pc |-> pc, outcome |-> outcome, bad_hosts |-> bad_hosts,
     host_selection_batches |-> host_selection_batches,
     select_host |-> select_host, genPos |-> genPos, cur |-> cur,
     remote_init_cache |-> remote_init_cache,
     remote_file_install_cache |-> remote_file_install_cache,
     evalCmds |-> evalCmds, initCmds |-> initCmds,
     installCmds |-> installCmds, initCalls |-> initCalls,
     installCalls |-> installCalls, ops |-> ops, tried |-> tried,
     syntaxFailed |-> syntaxFailed, public_key_file |-> public_key_file,
     configure_curve_calls |-> configure_curve_calls,
     log_errors |-> log_errors,
     job_submission_queue |-> job_submission_queue,
     submissions |-> submissions, handed |-> handed]

\* The platform string the generator g was made for (g is the task that
\* created it).
GenPlatform(s, g) == PlatformString(s.rtconfig[g])

\* The (platform, host) pair bound by the for statement of task t.
Bound(s, t) == Candidates(GenPlatform(s, s.select_host[t]))[s.cur[t]]

TargetOf(s, t) == InstallTargetOf[Bound(s, t).platform]

\* A flow is live from the moment _submit is entered until it has returned
\* or raised.
Live(s, t) == s.pc[t] \notin {"queued", "done"}

\* WeakValueDictionary: the entry of a key goes away with the last reference
\* to the generator it holds, here the select_host local of a _submit frame.
DropUnreferenced(s, t) ==
    LET g == s.select_host[t]
        held == \E u \in Tasks \ {t} : Live(s, u) /\ s.select_host[u] = g
    IN  IF g # 0 /\ ~held /\ s.host_selection_batches[s.rtconfig[g]] = g
        THEN [s.host_selection_batches EXCEPT ![s.rtconfig[g]] = 0]
        ELSE s.host_selection_batches

\* _submit returns ("submitted") or raises exc.
Finish(s, t, exc) ==
    [s EXCEPT !.pc[t] = "done",
              !.outcome[t] = exc,
              !.host_selection_batches = DropUnreferenced(s, t)]

\* "for platform, host in select_host": the next candidate is bound and
\* check_syntax is awaited, or the else clause raises.  The f-string of the
\* else clause reads the loop variable platform, which is unbound when the
\* generator has yielded nothing to this flow.
ForNext(s, t) ==
    LET g == s.select_host[t]
        ps == GenPlatform(s, g)
        j == NextIdx(ps, s.genPos[g], s.bad_hosts)
    IN  IF j = 0
        THEN Finish([s EXCEPT !.genPos[g] = Len(Candidates(ps)) + 1], t,
                    IF s.cur[t] = 0 THEN "UnboundLocalError"
                    ELSE "PlatformError")
        ELSE [s EXCEPT !.genPos[g] = j,
                       !.cur[t] = j,
                       !.tried[t] = Append(@, Candidates(ps)[j].host),
                       !.pc[t] = "check"]

\* Variant: the except clause starts the bad-hosts set afresh with the host
\* that failed.
ExceptSSHErrorResets(s, t) ==
    ForNext([s EXCEPT !.bad_hosts = {Bound(s, t).host}], t)

\* Variant: the except clause has the same host tried again.
ExceptSSHErrorRetry(s, t) ==
    [s EXCEPT !.bad_hosts = @ \cup {Bound(s, t).host},
              !.tried[t] = Append(@, Bound(s, t).host),
              !.pc[t] = "check"]

\* "except SSHError: bad_hosts.add(host); continue"
ExceptSSHError(s, t) ==
    ForNext([s EXCEPT !.bad_hosts = @ \cup {Bound(s, t).host}], t)

\* Variant: the except clause also takes the job syntax error for a host
\* failure.
IsSSHErrorOrSyntax(exc) == exc \in {"SSHError", "JobSyntaxError"}

\* Which exceptions the except clause of _submit catches.
IsSSHError(exc) == exc = "SSHError"

\* submit_job: job_submission_queue is a dict, so the append of its first
\* statement raises AttributeError, which suppress(KeyError) lets through;
\* nothing is queued and _submit_jobs is not reached.
SubmitJob(s, t) ==
    Finish([s EXCEPT !.ops[t] = @ \cup {"submit"},
                     !.handed = Append(@, t)], t, "AttributeError")

\* Variant: the entry becomes visible only once the operation has finished
\* (the cache is filled after the await, not before it).
CacheHitWhenFinished(cache, target) ==
    cache[target] \in {"True", "False", "SSHError"}

\* "with suppress(KeyError): return await cache[install target]"
CacheHit(cache, target) == cache[target] # "absent"

\* remote_file_install (the wrapper) up to its first suspension: a cached
\* coroutine object is awaited again, which raises RuntimeError whether it
\* has finished or is still being awaited by its first caller; else the
\* coroutine is made, cached and awaited, and file_install starts the
\* transfer command.
RemoteFileInstall(s, t) ==
    LET target == TargetOf(s, t)
        s1 == [s EXCEPT !.installCalls[target] = @ + 1,
                        !.ops[t] = @ \cup {"install"}]
    IN  IF CacheHit(s.remote_file_install_cache, target)
        THEN Finish(s1, t, "RuntimeError")
        ELSE [s1 EXCEPT !.remote_file_install_cache[target] = "pending",
                        !.installCmds[target] = @ + 1,
                        !.pc[t] = "install"]

\* Variant: remote.remote_init without the early return for the scheduler's
\* own install target.
RemoteInitNoShortcut(s, t) ==
    LET target == TargetOf(s, t)
        s1 == [s EXCEPT !.initCalls[target] = @ + 1,
                        !.ops[t] = @ \cup {"init"}]
    IN  IF CacheHit(s.remote_init_cache, target)
        THEN Finish(s1, t, "RuntimeError")
        ELSE [s1 EXCEPT !.remote_init_cache[target] = "pending",
                        !.initCmds[target] = @ + 1,
                        !.pc[t] = "init"]

\* remote_init (the wrapper) up to its first suspension.  For the scheduler's
\* own install target remote.remote_init returns True before any command.
\* The value remote_init returns is dropped by _submit.
RemoteInit(s, t) ==
    LET target == TargetOf(s, t)
        s1 == [s EXCEPT !.initCalls[target] = @ + 1,
                        !.ops[t] = @ \cup {"init"}]
    IN  IF CacheHit(s.remote_init_cache, target)
        THEN Finish(s1, t, "RuntimeError")
        ELSE IF target = LocalhostInstallTarget
        THEN RemoteFileInstall(
                [s1 EXCEPT !.remote_init_cache[target] = "True"], t)
        ELSE [s1 EXCEPT !.remote_init_cache[target] = "pending",
                        !.initCmds[target] = @ + 1,
                        !.pc[t] = "init"]

\* What an exception raised by a step of the loop body does.
Raise(s, t, exc) ==
    IF IsSSHError(exc) THEN ExceptSSHError(s, t) ELSE Finish(s, t, exc)

\* "sel = _host_selector(...); cache.host_selection_batches[key] = sel"
NewSelector(s, t) ==
    ForNext([s EXCEPT !.select_host[t] = t,
                      !.genPos[t] = 0,
                      !.host_selection_batches[s.rtconfig[t]] = t], t)

\* _get_host_host_selector up to its first suspension, then the loop head.
GetHostSelector(s, t) ==
    LET cfg == s.rtconfig[t]
    IN  IF ConfigConflict(cfg)
        THEN Finish(s, t, "WorkflowConfigError")
        ELSE IF s.host_selection_batches[cfg] # 0
        THEN ForNext(
                [s EXCEPT !.select_host[t] = s.host_selection_batches[cfg]],
                t)
        ELSE IF NeedsSubshell(cfg)
        THEN [s EXCEPT !.pc[t] = "eval",
                       !.evalCmds[cfg] = @ + 1,
                       !.ops[t] = @ \cup {"eval"}]
        ELSE NewSelector(s, t)

\* The mutable state of the pipeline becomes the record s.
Assign(s) ==
    /\ rtconfig' = s.rtconfig
    /\ observed' = s.observed
    /\ pc' = s.pc
    /\ outcome' = s.outcome
    /\ bad_hosts' = s.bad_hosts
    /\ host_selection_batches' = s.host_selection_batches
    /\ select_host' = s.select_host
    /\ genPos' = s.genPos
    /\ cur' = s.cur
    /\ remote_init_cache' = s.remote_init_cache
    /\ remote_file_install_cache' = s.remote_file_install_cache
    /\ evalCmds' = s.evalCmds
    /\ initCmds' = s.initCmds
    /\ installCmds' = s.installCmds
    /\ initCalls' = s.initCalls
    /\ installCalls' = s.installCalls
    /\ ops' = s.ops
    /\ tried' = s.tried
    /\ syntaxFailed' = s.syntaxFailed
    /\ public_key_file' = s.public_key_file
    /\ configure_curve_calls' = s.configure_curve_calls
    /\ log_errors' = s.log_errors
    /\ job_submission_queue' = s.job_submission_queue
    /\ submissions' = s.submissions
    /\ handed' = s.handed

\* A step of a flow of the pipeline: the next state is the record s.
Becomes(s) ==
    /\ Assign(s)
    /\ UNCHANGED <<driver, cancelled, proc, ri_result, host_expr, eh_result,
                   fnvars, cachevars, servervars, restvars>>

\* ------------------------------------------------------------------------
\* Actions
\* ------------------------------------------------------------------------

\* Variant: submitter catches every exception ("except Exception").
SubmitFailuresAll == Exceptions

\* The exceptions submitter records as a submission failure.
SubmitFailures == {"JobSyntaxError", "PlatformError", "SubmissionError"}

\* submitter takes the tasks of the queue in order and awaits _submit for
\* each; an exception it does not catch ends its loop.
SubmitterTakes(t) ==
    \A u \in Tasks :
        u < t => pc[u] = "done"
                 /\ outcome[u] \in SubmitFailures \cup {"submitted"}

\* A flow is entered: _get_rtconfig reads the runtime configuration of the
\* task (broadcasts merged in), and the flow runs to its first suspension.
Start(t) ==
    /\ pc[t] = "queued"
    /\ ~cancelled
    /\ driver = "submitter" => SubmitterTakes(t)
    /\ \E cfg \in RtConfigs :
        Becomes(GetHostSelector([State EXCEPT !.rtconfig[t] = cfg], t))

\* The subshell command of subshell_eval has returned.
EvalDone(t) ==
    /\ pc[t] = "eval"
    /\ Becomes(NewSelector(State, t))

\* check_syntax has returned (the job file is valid) or raised.
CheckDone(t) ==
    /\ pc[t] = "check"
    /\ \E valid \in BOOLEAN :
        Becomes(IF valid
                THEN RemoteInit(State, t)
                ELSE Raise([State EXCEPT !.syntaxFailed = @ \cup {t}],
                           t, "JobSyntaxError"))

\* The state after a command run against the host of task t has ended
\* with outcome st.
Observe(s, t, st) ==
    [s EXCEPT !.observed = @ \cup {<<Bound(s, t).host, st>>}]

\* The state after remote_init has dealt with the outcome r of the command
\* for the install target: key file, authenticator, log, and the cached
\* coroutine finished with that value or exception.
InitReturns(s, target, r) ==
    [s EXCEPT !.public_key_file[target] = @ \cup r.written,
              !.configure_curve_calls = @ + r.configured,
              !.log_errors = @ \cup (IF r.logged THEN {<<"init", target>>}
                                     ELSE {}),
              !.remote_init_cache[target] = r.result]

\* The remote-init command has ended: SSHError comes out of subprocpool.run,
\* or remote.remote_init deals with the finished process; what it returns is
\* dropped by _submit, which goes on to the file install.
InitDone(t) ==
    /\ pc[t] = "init"
    /\ \E st \in InitStatuses :
        LET target == TargetOf(State, t)
            s == Observe(State, t, st)
        IN  Becomes(
             IF st = "ssh"
             THEN Raise([s EXCEPT !.remote_init_cache[target] = "SSHError"],
                        t, "SSHError")
             ELSE LET r == RemoteInitCallback(ProcOf[st])
                      s1 == InitReturns(s, target, r)
                  IN  IF r.result = "AttributeError"
                      THEN Raise(s1, t, "AttributeError")
                      ELSE RemoteFileInstall(s1, t))

\* The file transfer command has ended: SSHError comes out of
\* subprocpool.run, or file_install returns True exactly for exit code 0 and
\* else logs the PlatformError and returns False; what it returns is dropped
\* by _submit, which goes on to submit_job.
InstallDone(t) ==
    /\ pc[t] = "install"
    /\ \E st \in HostStatuses :
        LET target == TargetOf(State, t)
            s == Observe(State, t, st)
        IN  Becomes(
             IF st = "ssh"
             THEN Raise([s EXCEPT
                             !.remote_file_install_cache[target] = "SSHError"],
                        t, "SSHError")
             ELSE IF ProcOf[st].ret_code = 0
             THEN SubmitJob(
                     [s EXCEPT !.remote_file_install_cache[target] = "True"],
                     t)
             ELSE SubmitJob(
                     [s EXCEPT !.remote_file_install_cache[target] = "False",
                               !.log_errors = @ \cup {<<"install", target>>}],
                     t))

\* remote.remote_init, called for a host of platform desktop, is handed the
\* finished process.
RemoteInitReturns ==
    /\ ri_result = "none"
    /\ LET r == RemoteInitCallback(proc)
       IN  /\ ri_result' = r.result
           /\ Assign(InitReturns(State, InstallTargetOf["desktop"], r))
    /\ UNCHANGED <<driver, cancelled, proc, host_expr, eh_result, fnvars,
                   cachevars, servervars, restvars>>

\* eval_host is called with the host expression.
EvalHostReturns ==
    /\ eh_result = "none"
    /\ eh_result' = EvalHost(host_expr)
    /\ Assign(State)
    /\ UNCHANGED <<driver, cancelled, proc, ri_result, host_expr, fnvars,
                   cachevars, servervars, restvars>>

\* ------------------------------------------------------------------------
\* remote.file_install
\* ------------------------------------------------------------------------

\* Exit codes of the transfer command (rsync over ssh): success, syntax or
\* usage error, partial transfer, ssh failure.
TransferRetCodes == {0, 1, 23, 255}

TransferOuts == {"", "sending incremental file list"}

TransferErrs == {"", "rsync: connection unexpectedly closed"}

\* What "proc = await subprocpool.run(cmd)" hands to file_install.
TransferProcs ==
    [ret_code : TransferRetCodes, out : TransferOuts, err : TransferErrs]

\* No call of file_install has returned.
NoFileInstall ==
    [returned |-> FALSE, result |-> FALSE, runs |-> 0, install_log |-> <<>>,
     log_error |-> FALSE]

\* file_install with stderr output counted as a failure.
FileInstallStderrFails(x, p) ==
    [returned |-> TRUE,
     result |-> (p.ret_code = 0 /\ p.err = ""),
     runs |-> 1,
     install_log |-> IF p.out = "" THEN <<>>
                     ELSE IF p.err = "" THEN <<x, p.out>>
                     ELSE <<x, p.out, p.err>>,
     log_error |-> ~(p.ret_code = 0 /\ p.err = "")]

\* file_install for install target x, the transfer process being p: one
\* "subprocpool.run(cmd)", stdout (and stderr with it) appended to the
\* install log of x when there is stdout, True for exit code 0, the
\* PlatformError logged and False otherwise.
FileInstall(x, p) ==
    [returned |-> TRUE,
     result |-> (p.ret_code = 0),
     runs |-> 1,
     install_log |-> IF p.out = "" THEN <<>>
                     ELSE IF p.err = "" THEN <<x, p.out>>
                     ELSE <<x, p.out, p.err>>,
     log_error |-> (p.ret_code # 0)]

\* file_install is called and returns.
FileInstallReturns ==
    /\ ~fi_result.returned
    /\ fi_result' = FileInstall(fi_target, fi_proc)
    /\ Assign(State)
    /\ UNCHANGED <<driver, cancelled, proc, ri_result, host_expr, eh_result,
                   fi_target, fi_proc, cachevars, servervars, restvars>>

\* No call of file_install is under way.
FileInstallIdle ==
    /\ fi_target = LocalhostInstallTarget
    /\ fi_proc = [ret_code |-> 0, out |-> "", err |-> ""]
    /\ fi_result = NoFileInstall

\* ------------------------------------------------------------------------
\* util.elru_cache (hostuserutil.lru_cache is the same code)
\* ------------------------------------------------------------------------

\* "expires" of the decorated function, in ticks of the clock.
Expires == 1

\* The clock is followed up to MaxTime, the wrapper is called MaxCalls
\* times at most.
MaxTime == 3
MaxCalls == 3

\* The time at which the function was decorated.
DecoratedAt == 0

\* The calls made: args is the tuple of positional arguments, kwargs the
\* keyword arguments as (name, value) pairs in the order given.
CallArgs ==
    {[args |-> <<>>, kwargs |-> <<>>],
     [args |-> <<"b">>, kwargs |-> <<>>],
     [args |-> <<"a">>, kwargs |-> << <<"foo", "bar">> >>],
     [args |-> <<"a", <<"foo", "bar">> >>, kwargs |-> <<>>]}

\* _make_key: "args + tuple(item for item in kwargs.items())"
MakeKey(args, kwargs) == args \o kwargs

\* "time() - age > expires"
Expired(now, age) == now - age > Expires

\* _inner(*args, **kwargs) for the call c.  cache and age are local names:
\* "cache = {}" and "age = time()" bind them anew and leave fcn.cache and
\* fcn.cache_age as they were, while "cache[key] = ..." changes fcn.cache
\* when cache still names it.  The wrapped function returns the number of
\* the invocation, which tells a stored result from a computed one.
InnerCall(c) ==
    /\ Len(calls) < MaxCalls
    /\ LET expired == Expired(clock, fcn_cache_age)
           live == IF expired THEN {} ELSE fcn_cache
           k == MakeKey(c.args, c.kwargs)
           hit == \E e \in live : e.key = k
           value == IF hit THEN (CHOOSE e \in live : e.key = k).value
                    ELSE Len(hits) + 1
       IN  /\ hits' = IF hit THEN hits ELSE Append(hits, c)
           /\ fcn_cache' = IF expired \/ hit THEN fcn_cache
                           ELSE fcn_cache \cup {[key |-> k, value |-> value]}
           /\ calls' = Append(calls, [call |-> c, at |-> clock,
                                      value |-> value, computed |-> ~hit])
    /\ UNCHANGED <<clock, fcn_cache_age>>
    /\ Assign(State)
    /\ UNCHANGED <<driver, cancelled, proc, ri_result, host_expr, eh_result,
                   fnvars, servervars, restvars>>

\* Time passes.
Tick ==
    /\ clock < MaxTime
    /\ clock' = clock + 1
    /\ UNCHANGED <<fcn_cache, fcn_cache_age, hits, calls>>
    /\ Assign(State)
    /\ UNCHANGED <<driver, cancelled, proc, ri_result, host_expr, eh_result,
                   fnvars, servervars, restvars>>

\* The function has just been decorated: "fcn.cache = {}",
\* "fcn.cache_age = time()".
Decorated ==
    /\ clock = DecoratedAt
    /\ fcn_cache = {}
    /\ fcn_cache_age = DecoratedAt
    /\ hits = <<>>
    /\ calls = <<>>

\* ------------------------------------------------------------------------
\* ZMQServer._reciever
\* ------------------------------------------------------------------------

\* A field that the message does not have.
Missing == [type |-> "missing", text |-> ""]

\* message['command']: the name of an endpoint that returns, of one that
\* raises, of nothing, of an attribute that is no method, of a method that
\* is not exposed and takes no keyword user (stop), of one that is not
\* exposed and takes user (SuiteRuntimeServer.get_priv_level), and a number.
CommandValues ==
    {[type |-> "string", text |-> "api"],
     [type |-> "string", text |-> "failing"],
     [type |-> "string", text |-> "foobar"],
     [type |-> "string", text |-> "port"],
     [type |-> "string", text |-> "stop"],
     [type |-> "string", text |-> "get_priv_level"],
     [type |-> "number", text |-> "5"]}

\* message['user']
UserValues ==
    {[type |-> "string", text |-> ""], [type |-> "string", text |-> "alice"]}

\* message['args']: no arguments, an argument the endpoint does not take,
\* and a list.
ArgsValues ==
    {[type |-> "object", text |-> "{}"],
     [type |-> "object", text |-> "{bogus: 1}"],
     [type |-> "array", text |-> "[]"]}

\* The decoded requests.
Messages ==
    [command : CommandValues \cup {Missing},
     user : UserValues \cup {Missing},
     args : ArgsValues \cup {Missing}]

\* The attributes of the server object that getattr finds.
Attributes == {"api", "failing", "port", "stop", "get_priv_level"}

\* The methods marked by the expose decorator.
Exposed == {"api", "failing"}

\* The methods that take the keyword user, which _reciever puts into args.
TakesUser == {"api", "failing", "get_priv_level"}

\* The body of the method runs: the attribute is callable and the
\* arguments fit its signature.
BodyRuns(name, args) == name \in TakesUser /\ args.text = "{}"

\* What the call "method(**args)" comes to: TypeError when the attribute is
\* not callable or the arguments do not fit, an exception out of the body
\* of "failing", else the value the body returns.
MethodCall(name, args) ==
    IF BodyRuns(name, args) /\ name # "failing" THEN "returns" ELSE "raises"

\* _reciever(message): the first try block (getattr, message['args'],
\* args.update, message['user']) with its handlers for KeyError and
\* AttributeError, then the call of the method with its handler for
\* Exception.  getattr with a name that is no string raises TypeError,
\* which the first try block does not handle.
Reciever(m) ==
    IF m.command = Missing THEN "error"
    ELSE IF m.command.type # "string" THEN "TypeError"
    ELSE IF m.command.text \notin Attributes THEN "error"
    ELSE IF m.args = Missing THEN "error"
    ELSE IF m.args.type # "object" THEN "error"
    ELSE IF m.user = Missing THEN "error"
    ELSE IF MethodCall(m.command.text, m.args) = "returns" THEN "data"
    ELSE "error"

\* The attributes whose body _reciever(m) runs.
Invoked(m) ==
    IF /\ m.command # Missing
       /\ m.command.type = "string"
       /\ m.command.text \in Attributes
       /\ m.args # Missing
       /\ m.args.type = "object"
       /\ m.user # Missing
       /\ BodyRuns(m.command.text, m.args)
    THEN {m.command.text}
    ELSE {}

\* _reciever is called with the message.
RecieverReturns ==
    /\ response = "none"
    /\ response' = Reciever(message)
    /\ invoked' = Invoked(message)
    /\ Assign(State)
    /\ UNCHANGED <<driver, cancelled, proc, ri_result, host_expr, eh_result,
                   fnvars, cachevars, message, restvars>>

\* No request is being dealt with.
ServerIdle ==
    /\ message = [command |-> Missing, user |-> Missing, args |-> Missing]
    /\ response = "none"
    /\ invoked = {}

\* ------------------------------------------------------------------------
\* suite_files.clean
\* ------------------------------------------------------------------------

\* The possible symlinks under the run directory, in the order clean goes
\* through them; "" is the run directory itself.
PossibleSymlinks == <<"log", "share/cycle", "share", "work", "">>

SymlinkNames == {PossibleSymlinks[i] : i \in 1..Len(PossibleSymlinks)}

\* What is at the place of a possible symlink: no symlink, a symlink to the
\* expected directory <symlink dir>/cylc-run/<reg>/<name>, a symlink to a
\* file, a symlink to a directory whose path does not end as expected.
LinkKinds == {"plain", "valid", "file", "badpath"}

\* No call of clean has been made.
NoClean == [outcome |-> "none", removed |-> {}, run_dir_removed |-> FALSE]

\* The loop over possible_symlinks from position i on, the targets of the
\* names of removed being removed already: the first invalid symlink
\* raises, a valid one has its <symlink dir>/cylc-run/<reg> removed, and
\* after the loop the run directory is removed.
RECURSIVE CleanFrom(_, _, _)
CleanFrom(links, i, removed) ==
    IF i > Len(PossibleSymlinks)
    THEN [outcome |-> "returned", removed |-> removed,
          run_dir_removed |-> TRUE]
    ELSE LET kind == links[PossibleSymlinks[i]]
         IN  IF kind \in {"file", "badpath"}
             THEN [outcome |-> "WorkflowFilesError", removed |-> removed,
                   run_dir_removed |-> FALSE]
             ELSE IF kind = "valid"
             THEN CleanFrom(links, i + 1,
                            removed \cup {PossibleSymlinks[i]})
             ELSE CleanFrom(links, i + 1, removed)

\* clean(reg) for a valid reg: nothing to do without a run directory,
\* SuiteServiceFileError for a running workflow, else the loop.
Clean(links, running, has_dir) ==
    IF ~has_dir
    THEN [outcome |-> "returned", removed |-> {}, run_dir_removed |-> FALSE]
    ELSE IF running
    THEN [outcome |-> "SuiteServiceFileError", removed |-> {},
          run_dir_removed |-> FALSE]
    ELSE CleanFrom(links, 1, {})

\* clean is called and returns or raises.
CleanReturns ==
    /\ cl_result.outcome = "none"
    /\ cl_result' = Clean(cl_links, cl_running, cl_run_dir)
    /\ Assign(State)
    /\ UNCHANGED <<driver, cancelled, proc, ri_result, host_expr, eh_result,
                   fnvars, cachevars, servervars, cl_links, cl_running,
                   cl_run_dir, pollvars, installvars>>

\* No call of clean is under way.
CleanIdle ==
    /\ cl_links = [n \in SymlinkNames |-> "plain"]
    /\ cl_running = FALSE
    /\ cl_run_dir = FALSE
    /\ cl_result = NoClean

\* ------------------------------------------------------------------------
\* main_loop.job_poller
\* ------------------------------------------------------------------------

\* The jobs (tokens with a submit number) the pool comes to hold, and the
\* longest status file followed.
NumJobs == 2
MaxLines == 2

Jobs == 1..NumJobs

\* The lines of a status file: a CYLC_MESSAGE line with its three fields,
\* a CYLC_MESSAGE line that does not split into three at "|", any other
\* line that is not empty.
Lines == {"message", "malformed", "other"}

\* init(): no tasks, no pollers, no signals.
PollerInit ==
    /\ active = {}
    /\ finished = {}
    /\ state_tasks = {}
    /\ pollers = [k \in Jobs |-> "absent"]
    /\ signals = [k \in Jobs |-> "absent"]
    /\ created = {}
    /\ status_file = [k \in Jobs |-> <<>>]
    /\ read_pos = [k \in Jobs |-> 0]
    /\ message_queue = <<>>
    /\ update_result = "none"
    /\ updated = FALSE
    /\ stop_result = "none"

\* A step of the job poller or of its surroundings leaves the rest alone.
PollerOnly ==
    /\ Assign(State)
    /\ UNCHANGED <<driver, cancelled, proc, ri_result, host_expr, eh_result,
                   fnvars, cachevars, servervars, cleanvars, installvars>>

\* The job of a task is submitted: the task becomes active.
Activate(k) ==
    /\ stop_result = "none"
    /\ k \notin active \cup finished
    /\ active' = active \cup {k}
    /\ updated' = FALSE
    /\ UNCHANGED <<finished, state_tasks, pollers, signals, created,
                   status_file, read_pos, message_queue, update_result,
                   stop_result>>
    /\ PollerOnly

\* The task leaves the submitted and running states.
Deactivate(k) ==
    /\ stop_result = "none"
    /\ k \in active
    /\ active' = active \ {k}
    /\ finished' = finished \cup {k}
    /\ updated' = FALSE
    /\ UNCHANGED <<state_tasks, pollers, signals, created, status_file,
                   read_pos, message_queue, update_result, stop_result>>
    /\ PollerOnly

\* The job writes a line to its status file, making the file if need be.
WriteLine(k) ==
    /\ k \in active
    /\ Len(status_file[k]) < MaxLines
    /\ \E ln \in Lines :
            status_file' = [status_file EXCEPT ![k] = Append(@, ln)]
    /\ created' = created \cup {k}
    /\ updated' = FALSE
    /\ UNCHANGED <<active, finished, state_tasks, pollers, signals, read_pos,
                   message_queue, update_result, stop_result>>
    /\ PollerOnly

\* The signals dict with the signals of the jobs of ks set.
SetSignals(sigs, ks) ==
    [k \in Jobs |-> IF k \in ks THEN "set" ELSE sigs[k]]

\* update(): start_poller for the newly active jobs (a new task and a new
\* future under the key, a poller already under it being let go of),
\* stop_poller for the jobs that are no longer active, purge_pollers, and
\* state['tasks'] = new_tasks.  There is no await in it.  stop_poller
\* raises KeyError for a job without a signal and InvalidStateError for a
\* signal that is set already; the jobs are taken in the order of the set,
\* so any of the others may have been signalled before, and what follows
\* the loop is not run.  The poller is followed up to the first update()
\* that raises.
Update ==
    /\ stop_result = "none"
    /\ update_result \in {"none", "ok"}
    /\ LET new_tasks == active
           started == new_tasks \ state_tasks
           p1 == [k \in Jobs |->
                    IF k \in started THEN "running" ELSE pollers[k]]
           s1 == [k \in Jobs |->
                    IF k \in started THEN "pending" ELSE signals[k]]
           to_stop == state_tasks \ new_tasks
           failing == {k \in to_stop : s1[k] # "pending"}
           ended == {k \in Jobs : p1[k] \in {"returned", "raised"}}
       IN  /\ read_pos' = [k \in Jobs |->
                            IF k \in started THEN 0 ELSE read_pos[k]]
           /\ IF failing = {}
              THEN /\ pollers' = [k \in Jobs |->
                                    IF k \in ended THEN "absent" ELSE p1[k]]
                   /\ signals' = [k \in Jobs |->
                                    IF k \in ended THEN "absent"
                                    ELSE SetSignals(s1, to_stop)[k]]
                   /\ state_tasks' = new_tasks
                   /\ update_result' = "ok"
              ELSE \E b \in failing :
                   \E earlier \in SUBSET (to_stop \ failing) :
                       /\ pollers' = p1
                       /\ signals' = SetSignals(s1, earlier)
                       /\ state_tasks' = state_tasks
                       /\ update_result' =
                            IF s1[b] = "absent" THEN "KeyError"
                            ELSE "InvalidStateError"
    /\ updated' = TRUE
    /\ UNCHANGED <<active, finished, created, status_file, message_queue,
                   stop_result>>
    /\ PollerOnly

\* status_file_poller for job k gets to run: with no status file it sleeps
\* and tries again (no step); else it reads the next line, puts a
\* CYLC_MESSAGE line on the queue, raises ValueError for one that does not
\* split into three fields, passes over any other; with nothing to read
\* it returns if its stop signal is set and sleeps if not (no step).
PollerRuns(k) ==
    /\ pollers[k] = "running"
    /\ k \in created
    /\ IF read_pos[k] < Len(status_file[k])
       THEN LET ln == status_file[k][read_pos[k] + 1]
            IN  /\ read_pos' = [read_pos EXCEPT ![k] = @ + 1]
                /\ message_queue' =
                      IF ln = "message"
                      THEN Append(message_queue, <<k, read_pos[k] + 1>>)
                      ELSE message_queue
                /\ pollers' = IF ln = "malformed"
                              THEN [pollers EXCEPT ![k] = "raised"]
                              ELSE pollers
       ELSE /\ signals[k] = "set"
            /\ pollers' = [pollers EXCEPT ![k] = "returned"]
            /\ UNCHANGED <<read_pos, message_queue>>
    /\ updated' = FALSE
    /\ UNCHANGED <<active, finished, state_tasks, signals, created,
                   status_file, update_result, stop_result>>

PollerStep(k) == PollerRuns(k) /\ PollerOnly

\* stop() up to its await: set_result on every signal of the dict, which
\* raises InvalidStateError for one that is set already (the others may
\* have been set before it); then it waits for the pollers of the dict.
Stop ==
    /\ stop_result = "none"
    /\ LET held == {k \in Jobs : signals[k] # "absent"}
           already == {k \in held : signals[k] = "set"}
       IN  IF already = {}
           THEN /\ signals' = SetSignals(signals, held)
                /\ stop_result' = "waiting"
           ELSE \E earlier \in SUBSET (held \ already) :
                    /\ signals' = SetSignals(signals, earlier)
                    /\ stop_result' = "InvalidStateError"
    /\ updated' = FALSE
    /\ UNCHANGED <<active, finished, state_tasks, pollers, created,
                   status_file, read_pos, message_queue, update_result>>
    /\ PollerOnly

\* "await asyncio.gather(*state['pollers'].values())" is through: a poller
\* has raised, or all of them have returned.
StopCompletes ==
    /\ stop_result = "waiting"
    /\ LET held == {k \in Jobs : pollers[k] # "absent"}
       IN  \/ /\ \E k \in held : pollers[k] = "raised"
              /\ stop_result' = "ValueError"
           \/ /\ \A k \in held : pollers[k] = "returned"
              /\ stop_result' = "completed"
    /\ updated' = FALSE
    /\ UNCHANGED <<active, finished, state_tasks, pollers, signals, created,
                   status_file, read_pos, message_queue, update_result>>
    /\ PollerOnly

\* ------------------------------------------------------------------------
\* suite_files.install_workflow (called without a run name)
\* ------------------------------------------------------------------------

\* The most run directories followed.
MaxRuns == 5

\* The source directories the workflow is installed from.
Sources == {"src1", "src2"}

\* get_next_rundir_number: one more than the highest run directory.
GetNextRundirNumber(n) == n + 1

\* What is on disk for the workflow, and how the last call ended.
InstallState ==
    [run_dirs |-> run_dirs, run_n |-> run_n, installed |-> installed,
     base_source_link |-> base_source_link, iw_result |-> iw_result]

\* "unlink_runN(run_n)" and then "check_nested_run_dirs(rundir,
\* flow_name)", which raises WorkflowFilesError when a directory above the
\* run directory is a valid run directory.
UnlinkRunN(f, nested) ==
    IF nested THEN [f EXCEPT !.run_n = 0, !.iw_result = "WorkflowFilesError"]
    ELSE [f EXCEPT !.run_n = 0]

\* install_workflow(source=src) without a run name, on the disk state f:
\* the next run number, the runN link taken away, the nesting check, the
\* run directory made, the install log opened (OSError when log_full), the
\* source link made if there is none, runN linked to the new run, the flow
\* file looked for, the files copied, _cylc-install made and the source
\* compared with the source link.
InstallWorkflow(f, src, nested, log_full, flow_file) ==
    LET run_num == GetNextRundirNumber(f.run_dirs)
        f1 == UnlinkRunN(f, nested)
        f2 == [f1 EXCEPT !.run_dirs = run_num]
        f3 == [f2 EXCEPT !.base_source_link =
                            IF @ = "none" THEN src ELSE @,
                         !.run_n = run_num]
    IN  IF f1.iw_result = "WorkflowFilesError" THEN f1
        ELSE IF log_full THEN [f2 EXCEPT !.iw_result = "OSError"]
        ELSE IF ~flow_file
        THEN [f3 EXCEPT !.iw_result = "SuiteServiceFileError"]
        ELSE IF f3.base_source_link # src
        THEN [f3 EXCEPT !.installed = @ \cup {run_num},
                        !.iw_result = "SuiteServiceFileError"]
        ELSE [f3 EXCEPT !.installed = @ \cup {run_num},
                        !.iw_result = "returned"]

\* install_workflow is called and returns or raises.
InstallWorkflowReturns ==
    /\ run_dirs < MaxRuns
    /\ \E src \in Sources : \E nested, log_full, flow_file \in BOOLEAN :
        LET f == InstallWorkflow([InstallState EXCEPT !.iw_result = "none"],
                                 src, nested, log_full, flow_file)
        IN  /\ run_dirs' = f.run_dirs
            /\ run_n' = f.run_n
            /\ installed' = f.installed
            /\ base_source_link' = f.base_source_link
            /\ iw_result' = f.iw_result
    /\ Assign(State)
    /\ UNCHANGED <<driver, cancelled, proc, ri_result, host_expr, eh_result,
                   fnvars, cachevars, servervars, cleanvars, pollvars>>

\* The workflow has not been installed.
NotInstalled ==
    /\ run_dirs = 0
    /\ run_n = 0
    /\ installed = {}
    /\ base_source_link = "none"
    /\ iw_result = "none"

RestIdle == CleanIdle /\ PollerInit /\ NotInstalled

AllHosts == Hosts \cup {"localhost"}

\* The pipeline before any flow is entered.
Idle ==
    /\ rtconfig = [t \in Tasks |-> [platform |-> "", host |-> ""]]
    /\ observed = {}
    /\ pc = [t \in Tasks |-> "queued"]
    /\ outcome = [t \in Tasks |-> "none"]
    /\ host_selection_batches = [k \in RtConfigs |-> 0]
    /\ select_host = [t \in Tasks |-> 0]
    /\ genPos = [t \in Tasks |-> 0]
    /\ cur = [t \in Tasks |-> 0]
    /\ remote_init_cache = [x \in InstallTargets |-> "absent"]
    /\ remote_file_install_cache = [x \in InstallTargets |-> "absent"]
    /\ evalCmds = [k \in RtConfigs |-> 0]
    /\ initCmds = [x \in InstallTargets |-> 0]
    /\ installCmds = [x \in InstallTargets |-> 0]
    /\ initCalls = [x \in InstallTargets |-> 0]
    /\ installCalls = [x \in InstallTargets |-> 0]
    /\ ops = [t \in Tasks |-> {}]
    /\ tried = [t \in Tasks |-> <<>>]
    /\ syntaxFailed = {}
    /\ public_key_file = [x \in InstallTargets |-> {}]
    /\ configure_curve_calls = 0
    /\ log_errors = {}
    /\ job_submission_queue = [k \in SubmissionKeys |-> <<>>]
    /\ submissions = <<>>
    /\ handed = <<>>
    /\ cancelled = FALSE
    /\ ri_result = "none"
    /\ eh_result = "none"

\* The bad-hosts sets the pipeline is started with.
InitialBadHosts == {{}, {"A"}, {"A", "B"}}

Init ==
    /\ Idle
    /\ driver \in {"submitter", "gather"}
    /\ bad_hosts \in InitialBadHosts
    /\ proc = ProcOf["ok"]
    /\ host_expr = ""
    /\ FileInstallIdle
    /\ Decorated
    /\ ServerIdle
    /\ RestIdle

Next ==
    \E t \in Tasks :
        \/ Start(t)
        \/ EvalDone(t)
        \/ CheckDone(t)
        \/ InitDone(t)
        \/ InstallDone(t)

Spec == Init /\ [][Next]_vars

\* A pending coroutine of the cache ends with the CancelledError thrown
\* into the flow that awaits it.
CancelPending(cache) ==
    [x \in InstallTargets |->
        IF cache[x] = "pending" THEN "CancelledError" ELSE cache[x]]

\* The task that runs the flows is cancelled while flows are suspended:
\* CancelledError is raised at the await of every suspended flow; neither
\* _submit nor submitter catches it, so the flows end with it, the frames
\* let go of their generators and no further task is taken.  Nothing is put
\* back into the submission queue.
Cancel ==
    /\ ~cancelled
    /\ \E t \in Tasks : Live(State, t)
    /\ cancelled' = TRUE
    /\ Assign([State EXCEPT
            !.pc = [t \in Tasks |-> IF Live(State, t) THEN "done" ELSE @[t]],
            !.outcome = [t \in Tasks |->
                            IF Live(State, t) THEN "CancelledError" ELSE @[t]],
            !.host_selection_batches = [k \in RtConfigs |-> 0],
            !.remote_init_cache = CancelPending(@),
            !.remote_file_install_cache = CancelPending(@)])
    /\ UNCHANGED <<driver, proc, ri_result, host_expr, eh_result, fnvars,
                   cachevars, servervars, restvars>>

\* The pipeline with cancellation.
SpecCancel == Init /\ [][Next \/ Cancel]_vars

\* The positions of a flow.
FlowPositions == {"queued", "eval", "check", "init", "install", "done"}

\* The flow of t leaves the position it is suspended at: the step that
\* EvalDone, CheckDone, InitDone and InstallDone make on pc, each of which
\* is enabled whenever the flow is at its position.
Resume(t) ==
    /\ pc[t] \notin {"queued", "done"}
    /\ \E v \in FlowPositions \ {pc[t]} : pc' = [pc EXCEPT ![t] = v]

\* The pipeline as submitter() drives it.
InitSubmitter == Init /\ driver = "submitter"

\* A command or check that a flow waits for comes to an end (the executor
\* ends every subprocess, by time-out if need be), so a suspended flow is
\* resumed in the end; nothing makes submitter take a queued task.
SpecFair ==
    InitSubmitter /\ [][Next]_vars /\ \A t \in Tasks : WF_pc(Resume(t))

\* remote.remote_init and eval_host called on their own, over the finished
\* processes and the host expressions.
InitFn ==
    /\ Idle
    /\ driver = "gather"
    /\ bad_hosts = {}
    /\ proc \in Procs
    /\ host_expr \in HostExprs
    /\ FileInstallIdle
    /\ Decorated
    /\ ServerIdle
    /\ RestIdle

NextFn == RemoteInitReturns \/ EvalHostReturns

SpecFn == InitFn /\ [][NextFn]_vars

\* remote.file_install called on its own, over the install targets and the
\* finished transfer processes.
InitInstall ==
    /\ Idle
    /\ driver = "gather"
    /\ bad_hosts = {}
    /\ proc = ProcOf["ok"]
    /\ host_expr = ""
    /\ fi_target \in InstallTargets
    /\ fi_proc \in TransferProcs
    /\ fi_result = NoFileInstall
    /\ Decorated
    /\ ServerIdle
    /\ RestIdle

SpecInstall == InitInstall /\ [][FileInstallReturns]_vars

\* A function under elru_cache, called as time passes.
InitCache ==
    /\ Idle
    /\ driver = "gather"
    /\ bad_hosts = {}
    /\ proc = ProcOf["ok"]
    /\ host_expr = ""
    /\ FileInstallIdle
    /\ Decorated
    /\ ServerIdle
    /\ RestIdle

NextCache == Tick \/ \E c \in CallArgs : InnerCall(c)

SpecCache == InitCache /\ [][NextCache]_vars

\* _reciever called on its own, over the decoded requests.
InitServer ==
    /\ Idle
    /\ driver = "gather"
    /\ bad_hosts = {}
    /\ proc = ProcOf["ok"]
    /\ host_expr = ""
    /\ FileInstallIdle
    /\ Decorated
    /\ message \in Messages
    /\ response = "none"
    /\ invoked = {}
    /\ RestIdle

SpecServer == InitServer /\ [][RecieverReturns]_vars

\* suite_files.clean called on its own, over the states of the run
\* directory.
InitClean ==
    /\ Idle
    /\ driver = "gather"
    /\ bad_hosts = {}
    /\ proc = ProcOf["ok"]
    /\ host_expr = ""
    /\ FileInstallIdle
    /\ Decorated
    /\ ServerIdle
    /\ cl_links \in [SymlinkNames -> LinkKinds]
    /\ cl_running \in BOOLEAN
    /\ cl_run_dir \in BOOLEAN
    /\ cl_result = NoClean
    /\ PollerInit
    /\ NotInstalled

SpecClean == InitClean /\ [][CleanReturns]_vars

\* The job poller in the main loop: tasks come and go, jobs write their
\* status files, update() runs every so often and stop() at shutdown.
InitPoller ==
    /\ Idle
    /\ driver = "gather"
    /\ bad_hosts = {}
    /\ proc = ProcOf["ok"]
    /\ host_expr = ""
    /\ FileInstallIdle
    /\ Decorated
    /\ ServerIdle
    /\ RestIdle

NextPoller ==
    \/ \E k \in Jobs :
            Activate(k) \/ Deactivate(k) \/ WriteLine(k) \/ PollerStep(k)
    \/ Update
    \/ Stop
    \/ StopCompletes

SpecPoller == InitPoller /\ [][NextPoller]_vars

\* A poller task that can run gets to run, and stop() is resumed once the
\* pollers it waits for have ended (the event loop runs what is ready).
SpecPollerFair ==
    /\ SpecPoller
    /\ \A k \in Jobs : WF_pollvars(PollerRuns(k))

\* install_workflow called again and again for one workflow.
InitInstallWorkflow ==
    /\ Idle
    /\ driver = "gather"
    /\ bad_hosts = {}
    /\ proc = ProcOf["ok"]
    /\ host_expr = ""
    /\ FileInstallIdle
    /\ Decorated
    /\ ServerIdle
    /\ RestIdle

SpecInstallWorkflow == InitInstallWorkflow /\ [][InstallWorkflowReturns]_vars

TypeOK ==
    /\ pc \in [Tasks -> {"queued", "eval", "check", "init", "install", "done"}]
    /\ outcome \in [Tasks -> Outcomes]
    /\ bad_hosts \subseteq AllHosts
    /\ select_host \in [Tasks -> 0..NumTasks]
    /\ remote_init_cache \in [InstallTargets -> CoroStates]
    /\ remote_file_install_cache \in [InstallTargets -> CoroStates]

\* ------------------------------------------------------------------------
\* Properties
\* ------------------------------------------------------------------------

\* The flow of t runs alone: no other flow has been entered.
Alone(t) == \A u \in Tasks \ {t} : pc[u] = "queued"

AllCmds == <<evalCmds, initCmds, installCmds>>

\* Every command run against a host of hs has ended with outcome st.
Always(hs, st) == \A o \in observed : o[1] \in hs => o[2] = st

\* C1: the file install for an install target is started only after remote
\* init for that target has completed and returned True.
C1_InstallOnlyAfterInitSuccess ==
    \A x \in InstallTargets :
        (remote_file_install_cache[x] # "absent" \/ installCmds[x] > 0)
            => remote_init_cache[x] = "True"

\* C2: host-selection requests for one key that are in flight together run
\* the subshell command once (never two evaluations of a key at a time, one
\* command for the flows that are live together), and the flows obtain the
\* same selector.
C2_SingleFlightEvaluation ==
    \A t1 \in Tasks : \A t2 \in Tasks \ {t1} :
        (rtconfig[t1] = rtconfig[t2] /\ pc[t1] # "queued" /\ pc[t2] # "queued")
        =>  /\ ~(pc[t1] = "eval" /\ pc[t2] = "eval")
            /\ (pc[t1] \notin {"queued", "done"}
                /\ pc[t2] \notin {"queued", "done"}
                /\ select_host[t1] # 0 /\ select_host[t2] # 0)
                    => select_host[t1] = select_host[t2]

\* C3: for each install target the remote-init command is started at most
\* once and the file transfer command is started at most once, whatever the
\* number of calls and of hosts they are made through.
C3_OneCommandPerInstallTarget ==
    \A x \in InstallTargets : initCmds[x] <= 1 /\ installCmds[x] <= 1

\* C3 witness: remote_init has been called twice for a target, the second
\* time through another host, and one command has been started.
C3_Witness ==
    \E t \in Tasks :
        /\ Len(tried[t]) >= 2
        /\ initCalls["T1"] >= 2
        /\ initCmds["T1"] = 1
        /\ installCmds["T1"] <= 1

\* C4: a caller that finds the operation of its install target cached gets
\* the result of the first caller; it is never failed with an error for
\* awaiting the cached operation a second time.
C4_CachedCallerGetsResult ==
    \A t \in Tasks : outcome[t] # "RuntimeError"

\* C5: hosts [A, B, C], where every command run against A or B ends with
\* host-unreachable and every one run against C succeeds: the pass ends with
\* the task submitted via C and with A and B in bad_hosts.
C5_FailoverToThirdHost ==
    \A t \in Tasks :
        (/\ Alone(t)
         /\ pc[t] = "done"
         /\ rtconfig[t] = [platform |-> "desktop", host |-> ""]
         /\ tried[t] # <<>> /\ tried[t][1] = "A"
         /\ <<"A", "ssh">> \in observed
         /\ Always({"A", "B"}, "ssh")
         /\ Always({"C"}, "ok")
         /\ t \notin syntaxFailed)
            => /\ outcome[t] = "submitted"
               /\ tried[t] = <<"A", "B", "C">>
               /\ {"A", "B"} \subseteq bad_hosts

\* C6: hosts [A, B], where every command run against A or B ends with
\* host-unreachable: the pass ends with PlatformError (a submission failure
\* for submitter) after each host was attempted once.
C6_ExhaustionIsPlatformError ==
    \A t \in Tasks :
        (/\ Alone(t)
         /\ pc[t] = "done"
         /\ rtconfig[t] = [platform |-> "$PLAT", host |-> ""]
         /\ tried[t] # <<>> /\ tried[t][1] = "A"
         /\ <<"A", "ssh">> \in observed
         /\ Always({"A", "B"}, "ssh")
         /\ t \notin syntaxFailed)
            => /\ outcome[t] = "PlatformError"
               /\ tried[t] = <<"A", "B">>

\* C7: when the selector yields no candidate, the pass ends with
\* PlatformError and bad_hosts is as it was.
C7_NoCandidateIsPlatformError ==
    \A t \in Tasks :
        (pc[t] = "done" /\ select_host[t] # 0 /\ tried[t] = <<>>)
            => outcome[t] = "PlatformError"

\* C8: a task with a non-empty platform expression and a non-empty host
\* expression ends with WorkflowConfigError in its first step, having
\* entered no remote operation and changed neither bad_hosts, the selection
\* cache, the init and install caches nor any command count.
C8_ConfigConflictFailsFast ==
    [][\A t \in Tasks :
        (rtconfig'[t].platform # "" /\ rtconfig'[t].host # ""
         /\ pc'[t] # pc[t])
            => /\ pc'[t] = "done"
               /\ outcome'[t] = "WorkflowConfigError"
               /\ ops'[t] = {}
               /\ tried'[t] = <<>>
               /\ UNCHANGED <<bad_hosts, host_selection_batches,
                              remote_init_cache, remote_file_install_cache,
                              AllCmds, initCalls, installCalls>>]_vars

\* C8 witness: a task with both expressions has ended with the error.
C8_Witness ==
    \E t \in Tasks :
        /\ rtconfig[t].platform # "" /\ rtconfig[t].host # ""
        /\ outcome[t] = "WorkflowConfigError"

\* C9: of tasks submitted together to a platform whose commands all succeed,
\* the one whose job file fails the syntax check ends with JobSyntaxError
\* and every other one ends submitted.
C9_SyntaxFailureIsIsolated ==
    (/\ \A t \in Tasks :
            /\ pc[t] = "done"
            /\ rtconfig[t] = [platform |-> "desktop", host |-> ""]
            /\ tried[t] = <<"A">>
     /\ Always(AllHosts, "ok")
     /\ Cardinality(syntaxFailed) = 1)
        => \A t \in Tasks :
              outcome[t] = IF t \in syntaxFailed THEN "JobSyntaxError"
                           ELSE "submitted"

\* C10: the step in which check_syntax raises for a task ends the task's
\* pass with JobSyntaxError: no further candidate is bound, no remote
\* operation is entered, no command is started and bad_hosts is unchanged;
\* the pass stays ended.
C10_SyntaxFailureIsFatal ==
    [][\A t \in Tasks :
        /\ t \in syntaxFailed'
            => pc'[t] = "done" /\ outcome'[t] = "JobSyntaxError"
        /\ (t \in syntaxFailed' /\ t \notin syntaxFailed)
            => /\ tried'[t] = tried[t]
               /\ ops'[t] = ops[t]
               /\ UNCHANGED <<bad_hosts, AllCmds, initCalls, installCalls>>
        /\ t \in syntaxFailed
            => UNCHANGED <<tried[t], ops[t], cur[t]>>]_vars

\* C10 witness: check_syntax has raised on a later candidate of a task, after
\* an earlier host had been marked bad.
C10_Witness ==
    \E t \in Tasks :
        /\ t \in syntaxFailed
        /\ Len(tried[t]) >= 2
        /\ outcome[t] = "JobSyntaxError"

\* The marker pairs of a standard output: a KEYSTART and a KEYEND after it.
MarkerPairs(out) ==
    {ij \in Positions(out, "KEYSTART") \X Positions(out, "KEYEND") :
        ij[1] < ij[2]}

\* C11: when the remote-init command exits with 0 and its standard output
\* holds KEYSTART and a KEYEND after it, the client public key file of the
\* install target holds exactly one text, the text that stands between a
\* KEYSTART marker and a KEYEND marker, with no marker and nothing of the
\* output around the markers in it.
C11_KeyIsTextBetweenMarkers ==
    (ri_result # "none" /\ proc.ret_code = 0 /\ MarkerPairs(proc.out) # {})
    => \E ij \in MarkerPairs(proc.out) :
        LET key == SubSeq(proc.out, ij[1] + 1, ij[2] - 1)
        IN  /\ public_key_file["T1"] = {key}
            /\ \A i \in 1..Len(key) : key[i] \notin {"KEYSTART", "KEYEND"}

\* C12: remote_init does not raise on a failed or malformed result: for a
\* non-zero exit code, and for exit code 0 with an output that has no
\* KEYSTART or no KEYEND after its KEYSTART, it logs the PlatformError and
\* returns False, writes no key file and does not configure the
\* authenticator.
C12_MalformedResultReturnsFalse ==
    (ri_result # "none" /\ (proc.ret_code # 0 \/ MarkerPairs(proc.out) = {}))
    => /\ ri_result = "False"
       /\ public_key_file["T1"] = {}
       /\ configure_curve_calls = 0
       /\ <<"init", "T1">> \in log_errors

\* The outcomes of a finished remote init that are failures.
InitFailures == {"False", "SSHError", "AttributeError"}

\* C13: after remote init of an install target has failed through one host,
\* a later remote_init call for that target, made by the flow at a later
\* candidate host, runs a new remote-init command and waits for its result
\* instead of taking over the earlier failure.
C13_FreshInitAfterFailure ==
    [][\A t \in Tasks : \A x \in InstallTargets :
        (Alone(t) /\ pc[t] = "check" /\ Len(tried[t]) >= 2
         /\ remote_init_cache[x] \in InitFailures
         /\ initCalls'[x] > initCalls[x])
        => (initCmds'[x] > initCmds[x] /\ pc'[t] = "init")]_vars

CommandEnded(t, sts) ==
    /\ pc[t] \in {"init", "install"}
    /\ pc'[t] # pc[t]
    /\ \A o \in observed' : o[1] = Bound(State, t).host => o[2] \in sts

\* C15: when the remote-init or the file transfer command of a flow exits
\* with a non-zero code other than 255, the attempt of the task ends there
\* as failed: no further candidate is bound, the host is not added to the
\* bad hosts, no further operation is entered and the job is not submitted.
C15_PlainFailureEndsAttempt ==
    [][\A t \in Tasks :
        CommandEnded(t, {"fail"})
        => /\ pc'[t] = "done"
           /\ outcome'[t] \in SubmitFailures
           /\ tried'[t] = tried[t]
           /\ bad_hosts' = bad_hosts
           /\ ops'[t] = ops[t]]_vars

\* C16: when a remote command of a flow run against host h ends as host
\* unreachable (exit code 255, or SSHError), bad_hosts becomes bad_hosts
\* with h added and nothing else changed in it, and the flow goes on to the
\* next candidate (ending with PlatformError only if none is left) instead
\* of failing on that host.
C16_UnreachableHostMarkedBad ==
    [][\A t \in Tasks :
        CommandEnded(t, {"ssh", "exit255"})
        => /\ bad_hosts' = bad_hosts \cup {Bound(State, t).host}
           /\ \/ pc'[t] = "check" /\ Len(tried'[t]) = Len(tried[t]) + 1
              \/ /\ pc'[t] = "done"
                 /\ outcome'[t] = "PlatformError"
                 /\ tried'[t] = tried[t]]_vars

\* The configured host list of the platform the flow of t selects from,
\* once its runtime configuration is read.
HostListOf(cfg) == PlatformHosts[PlatformString(cfg)]

\* Where a host stands in a host list.
IndexIn(hs, h) == SetMin({i \in 1..Len(hs) : hs[i] = h})

\* C17: in every submission attempt the candidate hosts are bound in the
\* configured order of the platform: the first one bound is the first
\* configured host that is not in bad_hosts, and each later one stands after
\* the one before it in the list; also with several flows of one key.
C17_CandidatesInConfiguredOrder ==
    [][\A t \in Tasks :
        Len(tried'[t]) = Len(tried[t]) + 1
        => LET hs == HostListOf(rtconfig'[t])
               n == Len(tried'[t])
               good == {i \in 1..Len(hs) : hs[i] \notin bad_hosts'}
           IN  IF n = 1
               THEN tried'[t][1] = hs[SetMin(good)]
               ELSE IndexIn(hs, tried'[t][n]) > IndexIn(hs, tried'[t][n - 1])
       ]_vars

\* Host h was in bad_hosts before any command was run against it.
BadFromStart(h) == h \in bad_hosts /\ \A o \in observed : o[1] # h

\* C18: the host selector never yields a candidate whose host is in
\* bad_hosts at the moment it is yielded; on the platform with hosts [A, B]
\* and A bad from the start, the hosts yielded to a flow are B and nothing
\* else (nothing at all when B is bad as well).
C18_NoBadHostYielded ==
    /\ [][\A t \in Tasks :
            Len(tried'[t]) = Len(tried[t]) + 1
            => tried'[t][Len(tried'[t])] \notin bad_hosts']_vars
    /\ [](\A t \in Tasks :
            (rtconfig[t].platform = "$PLAT" /\ select_host[t] # 0
             /\ BadFromStart("A"))
            => /\ tried[t] \in {<<>>, <<"B">>}
               /\ Alone(t) =>
                    (tried[t] = <<"B">> \/ BadFromStart("B")))

C18_Witness ==
    \E t \in Tasks :
        /\ rtconfig[t].platform = "$PLAT"
        /\ pc[t] = "done"
        /\ BadFromStart("A")
        /\ tried[t] = <<"B">>

\* The host name each host expression stands for: the output of its command
\* or the value of its variable, else the expression itself.
NameMeant ==
    [e \in HostExprs |->
        CASE e = "$(hostcmd)" -> "A"
          [] e = "$(ownhost)" -> "sched"
          [] e = "$HOSTVAR" -> "B"
          [] e = "$OWNVAR" -> "sched.example"
          [] OTHER -> e]

\* The names that identify the scheduler host.
OwnNames == {"localhost", "localhost.localdomain", "sched", "sched.example"}

C20_SubmitterAdvancesOthers ==
    \A t1 \in Tasks : \A t2 \in Tasks \ {t1} :
        (driver = "submitter" /\ Live(State, t1) /\ pc[t2] = "queued"
         /\ \A u \in Tasks : u < t2 => pc[u] # "queued")
        => /\ ENABLED Start(t2)
           /\ pc[t1] = "eval" => outcome[t1] = "none"

\* The places (invocation, position in its task list) where t was submitted.
SubmittedAt(t) ==
    {ij \in (1..Len(submissions)) \X Tasks :
        /\ ij[2] <= Len(submissions[ij[1]].tasks)
        /\ submissions[ij[1]].tasks[ij[2]] = t}

\* The tasks that have been handed to submit_job and whose flow has ended.
HandedAndDone == {t \in Tasks : "submit" \in ops[t] /\ pc[t] = "done"}

\* C21: every task handed to submit_job is dispatched by exactly one
\* submission invocation, the one made for its (platform, host) pair, and
\* gets its own result from it: its flow ends as submitted or with the
\* SubmissionError of its job.
C21_OneInvocationPerBatch ==
    \A t \in HandedAndDone :
        /\ Cardinality({ij[1] : ij \in SubmittedAt(t)}) = 1
        /\ \A ij \in SubmittedAt(t) :
              submissions[ij[1]].key =
                <<Bound(State, t).platform, Bound(State, t).host>>
        /\ outcome[t] \in {"submitted", "SubmissionError"}

\* C22: the task list of every submission invocation holds the tasks in the
\* order in which they were handed to submit_job, and every task handed to
\* submit_job stands in the invocations exactly once: none is reordered,
\* dropped or duplicated.
C22_BatchKeepsInsertionOrder ==
    /\ \A t \in HandedAndDone : Cardinality(SubmittedAt(t)) = 1
    /\ \A i \in 1..Len(submissions) :
        \A a, b \in 1..Len(submissions[i].tasks) :
            a < b =>
                \E x, y \in 1..Len(handed) :
                    /\ x < y
                    /\ handed[x] = submissions[i].tasks[a]
                    /\ handed[y] = submissions[i].tasks[b]

Unexpected ==
    {"WorkflowConfigError", "SSHError", "RuntimeError", "AttributeError",
     "UnboundLocalError"}

\* C24: an exception raised in the pipeline that is not a job syntax,
\* platform or submission error is not taken by submitter for a submission
\* failure: it ends the flow it was raised in and comes out of submitter,
\* which takes no further task.
C24_UnexpectedExceptionPropagates ==
    driver = "submitter"
    => \A t \in Tasks :
        (pc[t] = "done" /\ outcome[t] \in Unexpected)
        => \A u \in Tasks : u > t => pc[u] = "queued" /\ outcome[u] = "none"

C24_Witness ==
    /\ driver = "submitter"
    /\ pc[1] = "done"
    /\ outcome[1] = "RuntimeError"
    /\ \A u \in Tasks \ {1} : pc[u] = "queued"

\* The task is in the submission queue: submitter has not taken it.
InQueue(t) == pc[t] = "queued"

\* The outcome of the task is recorded: submitted, or submit-failed.
Recorded(t) == outcome[t] \in {"submitted"} \cup SubmitFailures

\* C25: when the pipeline is cancelled while a task is in flight, the task
\* ends where it can be attempted again: it is never out of the submission
\* queue and without a recorded outcome both, once the cancellation is
\* through.
C25_CancelledTaskCanBeRetried ==
    cancelled => \A t \in Tasks : InQueue(t) \/ Recorded(t) \/ Live(State, t)

\* C26: file_install returns True exactly when the exit code of the transfer
\* command is 0, whatever is on stderr, and a call runs the command once.
C26_FileInstallTrueIffExitZero ==
    fi_result.returned =>
        /\ fi_result.result = (fi_proc.ret_code = 0)
        /\ fi_result.runs = 1

\* A transfer that wrote to stderr and exited with 0 has returned True.
C26_Witness ==
    /\ fi_result.returned
    /\ fi_proc.ret_code = 0
    /\ fi_proc.err # ""
    /\ fi_result.result

\* The number of remote-init commands run for the install targets of xs.
RECURSIVE InitCmdsFor(_)
InitCmdsFor(xs) ==
    IF xs = {} THEN 0
    ELSE LET x == CHOOSE y \in xs : TRUE
         IN  initCmds[x] + InitCmdsFor(xs \ {x})

\* C27: for the scheduler's own install target remote_init returns True, and
\* no remote command is run, no key file is written and the authenticator
\* is not configured on its account (it is configured at most once per
\* command run for another target).
C27_LocalTargetInitIsNoOp ==
    /\ initCmds[LocalhostInstallTarget] = 0
    /\ public_key_file[LocalhostInstallTarget] = {}
    /\ initCalls[LocalhostInstallTarget] > 0
            => remote_init_cache[LocalhostInstallTarget] = "True"
    /\ configure_curve_calls
            <= InitCmdsFor(InstallTargets \ {LocalhostInstallTarget})

\* remote_init has been called for the own install target and the flow has
\* gone on to the file install.
C27_Witness ==
    /\ initCalls[LocalhostInstallTarget] > 0
    /\ installCalls[LocalhostInstallTarget] > 0
    /\ remote_init_cache[LocalhostInstallTarget] = "True"

\* The call numbered i was made before the validity period of the cache ran
\* out.
InPeriod(i) == calls[i].at - DecoratedAt <= Expires

\* C28: while the cache has not expired, a call with the arguments of an
\* earlier call returns the stored result without an invocation of the
\* function, and a call with other arguments does not get the result stored
\* for the earlier one.
C28_OneInvocationPerArguments ==
    \A i, j \in 1..Len(calls) :
        (i < j /\ InPeriod(j)) =>
            /\ calls[i].call = calls[j].call
                    => /\ ~calls[j].computed
                       /\ calls[j].value = calls[i].value
            /\ calls[i].call # calls[j].call
                    => calls[j].value # calls[i].value

\* The calls made after the validity period ran out.
AfterExpiry == {i \in 1..Len(calls) : ~InPeriod(i)}

\* C29: the first call after the validity period has run out wipes the
\* cache: it computes its result, nothing stored before it is left in the
\* cache, and a new period starts with it, within which a call with the
\* same arguments is served from the cache.
C29_ExpiryWipesAndRestarts ==
    AfterExpiry # {} =>
        LET w == SetMin(AfterExpiry)
        IN  /\ calls[w].computed
            /\ \A e \in fcn_cache : \A i \in 1..Len(calls) :
                    (calls[i].computed /\ calls[i].value = e.value) => i >= w
            /\ \A j \in 1..Len(calls) :
                    (/\ j > w
                     /\ calls[j].call = calls[w].call
                     /\ calls[j].at - calls[w].at <= Expires)
                        => /\ ~calls[j].computed
                           /\ calls[j].value = calls[w].value

\* The message has the three fields, names an endpoint, and the endpoint
\* returns for its arguments.
Served ==
    /\ message.command = [type |-> "string", text |-> "api"]
    /\ message.user # Missing
    /\ message.args = [type |-> "object", text |-> "{}"]

\* C30: _reciever never raises: it returns a response holding 'data' for a
\* message that has the three fields and names an endpoint that returns,
\* and a response holding 'error' for every other message.
C30_RecieverNeverRaises ==
    response # "none" =>
        /\ response \in {"data", "error"}
        /\ response = "data" <=> Served

\* C31: a request whose command names an attribute of the server that is
\* not marked by the expose decorator gets an error response and the
\* attribute is not called.
C31_OnlyExposedInvoked ==
    (/\ response # "none"
     /\ message.command.type = "string"
     /\ message.command.text \in Attributes \ Exposed)
        => /\ response = "error"
           /\ invoked = {}

\* C32: when clean raises, the run directory and the target of every
\* symlink are as they were before the call.
C32_NothingRemovedWhenCleanRaises ==
    cl_result.outcome \in {"SuiteServiceFileError", "WorkflowFilesError"}
        => /\ cl_result.removed = {}
           /\ ~cl_result.run_dir_removed

\* C33: every task handed to submit_job stands in exactly one submission
\* invocation and its call of submit_job completes instead of raising.
C33_EveryHandedTaskSubmitted ==
    \A i \in 1..Len(handed) :
        pc[handed[i]] = "done" =>
            /\ Cardinality(SubmittedAt(handed[i])) = 1
            /\ outcome[handed[i]] # "AttributeError"

\* C34: after a task has ended with the configuration-conflict error the
\* submitter goes on: it can take the next task of the queue.
C34_ConfigConflictFatalForTaskOnly ==
    \A t \in Tasks : \A u \in Tasks :
        (/\ driver = "submitter"
         /\ pc[t] = "done"
         /\ outcome[t] = "WorkflowConfigError"
         /\ u = t + 1
         /\ pc[u] = "queued")
            => ENABLED Start(u)

C36_UpdateKeepsPollersForActive ==
    updated =>
        /\ update_result = "ok"
        /\ \A k \in active : pollers[k] = "running" /\ signals[k] = "pending"
        /\ {k \in Jobs : pollers[k] # "absent"}
             = {k \in Jobs : signals[k] # "absent"}

\* C37: stop() does not raise while it sets the stop signals, and once it
\* has begun every signal of the dict is set.
C37_StopSetsSignalsWithoutRaising ==
    /\ stop_result # "InvalidStateError"
    /\ stop_result # "none" => \A k \in Jobs : signals[k] # "pending"

\* The CYLC_MESSAGE lines among the first n lines of the status file of k.
MessagesRead(k, n) ==
    SelectSeq([i \in 1..n |-> <<k, i>>],
              LAMBDA m : status_file[k][m[2]] = "message")

\* The entries of the message queue that came from the status file of k.
QueuedFrom(k) == SelectSeq(message_queue, LAMBDA m : m[1] = k)

\* C38: a poller whose stop signal is set returns in the end, with or
\* without a status file, and at the step in which it returns every
\* CYLC_MESSAGE line of the file is on the message queue, in file order.
C38_SignalledPollerReturns ==
    /\ \A k \in Jobs :
            (signals[k] = "set" /\ pollers[k] = "running")
                ~> (pollers[k] = "returned")
    /\ [][\A k \in Jobs :
            (pollers[k] = "running" /\ pollers'[k] = "returned")
                => QueuedFrom(k) = MessagesRead(k, Len(status_file[k]))]_vars

\* C39: at the end of every call of install_workflow without a run name,
\* returned or raised, if there is a numbered run directory then the runN
\* link is there and points to the one with the highest number.
C39_RunNPointsToLatestRun ==
    (iw_result # "none" /\ run_dirs > 0) => run_n = run_dirs
====
